---- MODULE Spec2Model ----
(***************************************************************************)
(* Session management and configuration resolution of the PostgreSQL /     *)
(* MySQL MCP server (src/index.js, class SQLMCPServer).                    *)
(*                                                                         *)
(* JavaScript values are modelled as follows.                              *)
(*   null / undefined      the empty tuple <<>>                            *)
(*   an object             a function from its own property names to their *)
(*                         values (an absent property is outside DOMAIN)   *)
(*   a string              a TLA+ string; the strings that the code parses *)
(*                         or lower-cases (DB_PORT, DB_TYPE, ...) are      *)
(*                         tuples of one-character strings                 *)
(*   a number              [nan |-> FALSE, n |-> i], NaN is [nan |-> TRUE] *)
(***************************************************************************)
EXTENDS Integers, Sequences, FiniteSets, TLC

VARIABLES
    env,              \* process.env after dotenv.config()
    currentConfig,    \* this.currentConfig
    postgresPool,     \* this.postgresPool
    mysqlConnection,  \* this.mysqlConnection
    pools,            \* every pool object created so far: id -> "open" | "ended"
    phase,            \* "boot" until the server takes requests, "serving", and
                      \* "exited" after process.exit
    last,             \* the last handler run: its tool, response and driver calls
    running           \* the handlers suspended at an await: handler -> its position

vars == <<env, currentConfig, postgresPool, mysqlConnection, pools, phase, last, running>>

session == <<currentConfig, postgresPool, mysqlConnection>>

-----------------------------------------------------------------------------
(* JavaScript values *)

Null == <<>>

Num(i) == [nan |-> FALSE, n |-> i]

NaN == [nan |-> TRUE, n |-> 0]

\* !!x for a string-valued property f of object o
TruthyStr(o, f) == f \in DOMAIN o /\ o[f] # ""

\* !!x for a string kept as a tuple of characters
TruthyChars(o, f) == f \in DOMAIN o /\ o[f] # <<>>

\* !!x for a number-valued property f of object o
TruthyNum(o, f) == f \in DOMAIN o /\ ~o[f].nan /\ o[f].n # 0

Digits == <<"0", "1", "2", "3", "4", "5", "6", "7", "8", "9">>

IsDigit(c) == \E d \in 1..Len(Digits) : Digits[d] = c

DigitVal(c) == (CHOOSE d \in 1..Len(Digits) : Digits[d] = c) - 1

RECURSIVE DigitsValue(_, _)
\* value of the leading run of decimal digits of s, continuing from acc
DigitsValue(s, acc) ==
    IF s = <<>> \/ ~IsDigit(Head(s)) THEN acc
    ELSE DigitsValue(Tail(s), acc * 10 + DigitVal(Head(s)))

RECURSIVE SkipSpaces(_)
SkipSpaces(s) == IF s # <<>> /\ Head(s) = " " THEN SkipSpaces(Tail(s)) ELSE s

\* parseInt(s, 10): leading white space, an optional sign, then the longest
\* run of digits; NaN when there is no digit
parseInt(str) ==
    LET s    == SkipSpaces(str)
        neg  == s # <<>> /\ Head(s) = "-"
        body == IF s # <<>> /\ Head(s) \in {"-", "+"} THEN Tail(s) ELSE s
    IN  IF body = <<>> \/ ~IsDigit(Head(body)) THEN NaN
        ELSE Num((IF neg THEN -1 ELSE 1) * DigitsValue(body, 0))

Upper == <<"A", "B", "C", "D", "E", "F", "G", "H", "I", "J", "K", "L", "M",
           "N", "O", "P", "Q", "R", "S", "T", "U", "V", "W", "X", "Y", "Z">>

Lower == <<"a", "b", "c", "d", "e", "f", "g", "h", "i", "j", "k", "l", "m",
           "n", "o", "p", "q", "r", "s", "t", "u", "v", "w", "x", "y", "z">>

\* String.prototype.toLowerCase
toLowerCase(s) ==
    [i \in 1..Len(s) |->
        IF \E k \in 1..Len(Upper) : Upper[k] = s[i]
        THEN Lower[CHOOSE k \in 1..Len(Upper) : Upper[k] = s[i]]
        ELSE s[i]]

-----------------------------------------------------------------------------
(* Configuration *)

Required == {"type", "host", "port", "database", "user", "password"}

Located == {"host", "port", "database", "user", "password"}

\* process.env.A || process.env.B for string values, as an object with the
\* one property "v" (or none): A when it is set and non-empty, else B
EnvOr(e, a, b) ==
    IF a \in DOMAIN e /\ e[a] # "" THEN [v |-> e[a]]
    ELSE IF b \in DOMAIN e THEN [v |-> e[b]]
    ELSE Null

\* process.env.A || process.env.B for values kept as tuples of characters
EnvOrChars(e, a, b) ==
    IF a \in DOMAIN e /\ e[a] # <<>> THEN [v |-> e[a]]
    ELSE IF b \in DOMAIN e THEN [v |-> e[b]]
    ELSE Null

\* process.env.A
EnvGet(e, a) == IF a \in DOMAIN e THEN [v |-> e[a]] ELSE Null

\* process.env.A === 'true'
EnvIsTrue(e, a) == a \in DOMAIN e /\ e[a] = "true"

getConfigFromEnv(e) ==
    LET pgHost        == EnvOr(e, "DB_HOST", "POSTGRES_HOST")
        pgPort        == EnvOrChars(e, "DB_PORT", "POSTGRES_PORT")
        pgDatabase    == EnvOr(e, "DB_DATABASE", "POSTGRES_DATABASE")
        pgUser        == EnvOr(e, "DB_USER", "POSTGRES_USER")
        pgPassword    == EnvOr(e, "DB_PASSWORD", "POSTGRES_PASSWORD")
        dbType        == EnvOrChars(e, "DB_TYPE", "DATABASE_TYPE")
        mysqlHost     == EnvGet(e, "MYSQL_HOST")
        mysqlPort     == EnvGet(e, "MYSQL_PORT")
        mysqlDatabase == EnvGet(e, "MYSQL_DATABASE")
        mysqlUser     == EnvGet(e, "MYSQL_USER")
        mysqlPassword == EnvGet(e, "MYSQL_PASSWORD")
        type ==
            IF TruthyChars(dbType, "v")
            THEN (IF toLowerCase(dbType.v) = <<"m", "y", "s", "q", "l">>
                  THEN "mysql" ELSE "postgresql")
            ELSE IF TruthyStr(mysqlHost, "v") \/ TruthyStr(mysqlDatabase, "v")
            THEN "mysql"
            ELSE IF TruthyStr(pgHost, "v") \/ TruthyStr(pgDatabase, "v")
            THEN "postgresql"
            ELSE ""
    IN  IF type = "" THEN Null
        ELSE IF type = "postgresql"
        THEN IF ~TruthyStr(pgHost, "v") \/ ~TruthyChars(pgPort, "v")
                \/ ~TruthyStr(pgDatabase, "v") \/ ~TruthyStr(pgUser, "v")
                \/ ~TruthyStr(pgPassword, "v")
             THEN Null
             ELSE [type     |-> "postgresql",
                   host     |-> pgHost.v,
                   port     |-> parseInt(pgPort.v),
                   database |-> pgDatabase.v,
                   user     |-> pgUser.v,
                   password |-> pgPassword.v,
                   ssl      |-> EnvIsTrue(e, "DB_SSL") \/ EnvIsTrue(e, "POSTGRES_SSL")]
        ELSE IF ~TruthyStr(mysqlHost, "v") \/ ~TruthyChars(mysqlPort, "v")
                \/ ~TruthyStr(mysqlDatabase, "v") \/ ~TruthyStr(mysqlUser, "v")
                \/ ~TruthyStr(mysqlPassword, "v")
             THEN Null
             ELSE [type     |-> "mysql",
                   host     |-> mysqlHost.v,
                   port     |-> parseInt(mysqlPort.v),
                   database |-> mysqlDatabase.v,
                   user     |-> mysqlUser.v,
                   password |-> mysqlPassword.v,
                   ssl      |-> EnvIsTrue(e, "DB_SSL") \/ EnvIsTrue(e, "MYSQL_SSL")]


-----------------------------------------------------------------------------
(* The database drivers (pg.Pool, mysql2 createPool), seen from the server *)

\* one driver call appended to the record of the running handler
Call(s, c) == [s EXCEPT !.calls = Append(@, c)]

\* the options object handed to new Pool(...) / mysql.createPool(...): the
\* located properties config has, and whether config.ssl is truthy
PoolOptions(finalConfig) ==
    [f \in (DOMAIN finalConfig \cap Located) \cup {"ssl"} |->
        IF f = "ssl" THEN "ssl" \in DOMAIN finalConfig /\ finalConfig.ssl
        ELSE finalConfig[f]]

\* new Pool({...}) / mysql.createPool({...}): a fresh pool object, numbered
\* in order of creation
NewPool(s, kind, finalConfig) ==
    [Call(s, [op |-> "create", pool |-> Len(s.pools) + 1, kind |-> kind,
              options |-> PoolOptions(finalConfig)])
        EXCEPT !.pools = Append(@, "open")]

\* the pool object created last
Newest(s) == [id |-> Len(s.pools)]

\* await pool.end()
End(s, p) ==
    [Call(s, [op |-> "end", pool |-> p.id]) EXCEPT !.pools[p.id] = "ended"]

\* what a handler hands back: the session it leaves, and either the value it
\* returns or the error it throws
Return(s, text) ==
    [s |-> s, thrown |-> Null,
     value |-> [content |-> <<[type |-> "text", text |-> text]>>]]

Throw(s, message) == [s |-> s, thrown |-> [message |-> message], value |-> Null]

NotConnectedMsg == <<"Not connected to any database. Call connect_database first.">>

IncompleteMsg ==
    <<"Incomplete database configuration. Provide all parameters or set environment variables:\n",
      "For PostgreSQL: DB_TYPE=postgresql, DB_HOST, DB_PORT, DB_DATABASE, DB_USER, DB_PASSWORD\n",
      "For MySQL: DB_TYPE=mysql, MYSQL_HOST, MYSQL_PORT, MYSQL_DATABASE, MYSQL_USER, MYSQL_PASSWORD">>

DisconnectedMsg == <<"Disconnected from database">>

\* the message of an error raised by a driver, passed on verbatim
DriverMsg(what) == <<"driver: ", what>>

\* String(x) for a number
NumToString(x) == IF x.nan THEN "NaN" ELSE ToString(x.n)

-----------------------------------------------------------------------------
(* The handlers, as functions of the session s they start from.  s holds   *)
(* currentConfig, postgresPool, mysqlConnection, pools and calls, the      *)
(* driver calls made so far by the running handler.                        *)

\* lines 516-519
EndPostgres(s) ==
    IF s.postgresPool # Null
    THEN [End(s, s.postgresPool) EXCEPT !.postgresPool = Null]
    ELSE s

\* lines 521-524
EndMysql(s) ==
    IF s.mysqlConnection # Null
    THEN [End(s, s.mysqlConnection) EXCEPT !.mysqlConnection = Null]
    ELSE s

\* disconnectDatabase without line 526
disconnectDatabase_KeepsConfig(s) == Return(EndMysql(EndPostgres(s)), DisconnectedMsg)

disconnectDatabase(s) ==
    Return([EndMysql(EndPostgres(s)) EXCEPT !.currentConfig = Null], DisconnectedMsg)

\* NeedsEnv without the test of config.host
NeedsEnv_SkipsHost(config) ==
    \/ ~TruthyStr(config, "type")
    \/ ~TruthyNum(config, "port")
    \/ ~TruthyStr(config, "database")
    \/ ~TruthyStr(config, "user")
    \/ ~TruthyStr(config, "password")

\* the test of line 249: some required property of config is falsy
NeedsEnv(config) ==
    \/ ~TruthyStr(config, "type")
    \/ ~TruthyStr(config, "host")
    \/ ~TruthyNum(config, "port")
    \/ ~TruthyStr(config, "database")
    \/ ~TruthyStr(config, "user")
    \/ ~TruthyStr(config, "password")

\* the object literal of lines 261-269
MergeConfig(config, envConfig) ==
    [type     |-> IF TruthyStr(config, "type") THEN config.type ELSE envConfig.type,
     host     |-> IF TruthyStr(config, "host") THEN config.host ELSE envConfig.host,
     port     |-> IF TruthyNum(config, "port") THEN config.port ELSE envConfig.port,
     database |-> IF TruthyStr(config, "database") THEN config.database
                  ELSE envConfig.database,
     user     |-> IF TruthyStr(config, "user") THEN config.user ELSE envConfig.user,
     password |-> IF TruthyStr(config, "password") THEN config.password
                  ELSE envConfig.password,
     ssl      |-> IF "ssl" \in DOMAIN config THEN config.ssl ELSE envConfig.ssl]

\* lines 252-269, envConfig being what getConfigFromEnv returned
MergeOrFail(config, envConfig) ==
    IF envConfig = Null THEN Null ELSE MergeConfig(config, envConfig)

\* lines 247-272: the configuration connectDatabase goes on with, Null when
\* it throws the incomplete-configuration error
FinalConfig(e, config) ==
    IF NeedsEnv(config) THEN MergeOrFail(config, getConfigFromEnv(e)) ELSE config

\* `${o.f}` for a string property
Embed(o, f) == IF f \in DOMAIN o THEN o[f] ELSE "undefined"

\* `${o.f}` for a number property
EmbedNum(o, f) == IF f \in DOMAIN o THEN NumToString(o[f]) ELSE "undefined"

\* o.f === v
Is(o, f, v) == f \in DOMAIN o /\ o[f] = v

ConnectedMsg(backend, finalConfig) ==
    <<"Successfully connected to ", backend, " database: ", Embed(finalConfig, "database"),
      "@", Embed(finalConfig, "host"), ":", EmbedNum(finalConfig, "port")>>

\* lines 290-302: the probe of the new PostgreSQL pool p held by s
ProbePostgres(s, p, finalConfig, drv) ==
    IF drv = "connect_rejects"
    THEN Throw(Call(s, [op |-> "connect", pool |-> p.id]), DriverMsg("connect"))
    ELSE IF drv = "query_rejects"
    THEN Throw(Call(Call(s, [op |-> "connect", pool |-> p.id]),
                    [op |-> "query", pool |-> p.id, sql |-> "SELECT NOW()"]),
               DriverMsg("query"))
    ELSE Return(Call(Call(Call(s, [op |-> "connect", pool |-> p.id]),
                          [op |-> "query", pool |-> p.id, sql |-> "SELECT NOW()"]),
                     [op |-> "release", pool |-> p.id]),
                ConnectedMsg("PostgreSQL", finalConfig))

\* lines 315-325: the probe of the new MySQL pool p held by s
ProbeMysql(s, p, finalConfig, drv) ==
    IF drv = "query_rejects"
    THEN Throw(Call(s, [op |-> "query", pool |-> p.id, sql |-> "SELECT NOW()"]),
               DriverMsg("query"))
    ELSE Return(Call(s, [op |-> "query", pool |-> p.id, sql |-> "SELECT NOW()"]),
                ConnectedMsg("MySQL", finalConfig))

\* this.postgresPool = new Pool(...), s being the session just after new
HoldPostgres(s) == [s EXCEPT !.postgresPool = Newest(s)]

\* HoldMysql without the assignment to this.mysqlConnection
HoldMysql_Unheld(s) == s

\* this.mysqlConnection = mysql.createPool(...)
HoldMysql(s) == [s EXCEPT !.mysqlConnection = Newest(s)]

\* lines 277-328, s being the session after line 275
OpenPool(s, finalConfig, drv) ==
    IF Is(finalConfig, "type", "postgresql")
    THEN ProbePostgres(HoldPostgres(NewPool(s, "pg", finalConfig)),
                       [id |-> Len(s.pools) + 1], finalConfig, drv)
    ELSE IF Is(finalConfig, "type", "mysql")
    THEN ProbeMysql(HoldMysql(NewPool(s, "mysql", finalConfig)),
                    [id |-> Len(s.pools) + 1], finalConfig, drv)
    ELSE Throw(s, <<"Unsupported database type: ", Embed(finalConfig, "type")>>)

\* SetConfig without the assignment of line 277
SetConfig_Dropped(s, finalConfig) == s

\* this.currentConfig = finalConfig
SetConfig(s, finalConfig) == [s EXCEPT !.currentConfig = finalConfig]

\* ConnectTo without line 275: the pool held is not ended first
ConnectTo_KeepsOldPool(s, finalConfig, drv) ==
    IF finalConfig = Null THEN Throw(s, IncompleteMsg)
    ELSE OpenPool(SetConfig(s, finalConfig), finalConfig, drv)

\* lines 252-328 once finalConfig is known
ConnectTo(s, finalConfig, drv) ==
    IF finalConfig = Null THEN Throw(s, IncompleteMsg)
    ELSE OpenPool(SetConfig(disconnectDatabase(s).s, finalConfig), finalConfig, drv)

\* connectDatabase closing the session before it resolves the configuration
connectDatabase_ClosesFirst(e, s, config, drv) ==
    ConnectTo(disconnectDatabase(s).s, FinalConfig(e, config), drv)

\* drv is what the driver does with the new pool: "ok", "connect_rejects"
\* (pool.connect() rejects) or "query_rejects" (the SELECT NOW() probe rejects)
connectDatabase(e, s, config, drv) == ConnectTo(s, FinalConfig(e, config), drv)

\* what pool.query resolves to, by what the statement was: drv = "read"
\* (a row set) or "write" (no row set, a count of affected rows)
PgResult(drv) ==
    IF drv = "read"
    THEN [rows     |-> <<[id |-> 1], [id |-> 2]>>,
          rowCount |-> 2,
          fields   |-> <<[name |-> "id", dataTypeID |-> 23, format |-> "text"]>>]
    ELSE [rows |-> <<>>, rowCount |-> 3, fields |-> <<>>]

\* mysql2 resolves to [rows, fields]: for a read an array of rows and the
\* column definitions, for a write a result header and no fields.  An array
\* is kept as an object with the property "array".
MysqlResult(drv) ==
    IF drv = "read"
    THEN [rows   |-> [array |-> <<[id |-> 1], [id |-> 2]>>],
          fields |-> [array |-> <<[name |-> "id", type |-> 3, flags |-> 0]>>]]
    ELSE [rows |-> [affectedRows |-> 3, insertId |-> 0], fields |-> Null]

\* Array.isArray(x)
IsArray(x) == "array" \in DOMAIN x

\* lines 336-388
QueryConnected(s, query, params, drv) ==
    IF Is(s.currentConfig, "type", "postgresql")
    THEN IF s.postgresPool = Null
         THEN Throw(s, <<"PostgreSQL connection not initialized">>)
         ELSE LET s1 == Call(s, [op |-> "query", pool |-> s.postgresPool.id,
                                 sql |-> query, params |-> params])
                  result == PgResult(drv)
              IN  IF drv = "query_rejects" THEN Throw(s1, DriverMsg("query"))
                  ELSE Return(s1,
                         [rows     |-> result.rows,
                          rowCount |-> result.rowCount,
                          fields   |-> [i \in 1..Len(result.fields) |->
                                           [name       |-> result.fields[i].name,
                                            dataTypeID |-> result.fields[i].dataTypeID]]])
    ELSE IF Is(s.currentConfig, "type", "mysql")
    THEN IF s.mysqlConnection = Null
         THEN Throw(s, <<"MySQL connection not initialized">>)
         ELSE LET s1 == Call(s, [op |-> "query", pool |-> s.mysqlConnection.id,
                                 sql |-> query,
                                 params |-> IF params = Null THEN <<>> ELSE params])
                  rows   == MysqlResult(drv).rows
                  fields == MysqlResult(drv).fields
              IN  IF drv = "query_rejects" THEN Throw(s1, DriverMsg("query"))
                  ELSE Return(s1,
                         [rows     |-> IF IsArray(rows) THEN rows.array ELSE rows,
                          rowCount |-> IF IsArray(rows) THEN Len(rows.array) ELSE 0,
                          fields   |-> IF fields = Null THEN <<>>
                                       ELSE [i \in 1..Len(fields.array) |->
                                                [name |-> fields.array[i].name,
                                                 type |-> fields.array[i].type]]])
    ELSE Throw(s, <<"Unsupported database type: ", Embed(s.currentConfig, "type")>>)

\* executeQuery dropping the configuration when the driver rejects
executeQuery_ResetsOnError(s, query, params, drv) ==
    IF s.currentConfig = Null THEN Throw(s, NotConnectedMsg)
    ELSE IF drv = "query_rejects"
    THEN Throw([QueryConnected(s, query, params, drv).s EXCEPT !.currentConfig = Null],
               DriverMsg("query"))
    ELSE QueryConnected(s, query, params, drv)

executeQuery(s, query, params, drv) ==
    IF s.currentConfig = Null THEN Throw(s, NotConnectedMsg)
    ELSE QueryConnected(s, query, params, drv)

\* the tables the database holds, as the driver reports them
TableNames == <<"orders", "users">>

\* lines 396-448
ListConnected(s, drv) ==
    IF Is(s.currentConfig, "type", "postgresql")
    THEN IF s.postgresPool = Null
         THEN Throw(s, <<"PostgreSQL connection not initialized">>)
         ELSE LET s1 == Call(s, [op |-> "query", pool |-> s.postgresPool.id,
                                 sql |-> "SELECT table_name FROM information_schema.tables"])
                  rows == [i \in 1..Len(TableNames) |-> [table_name |-> TableNames[i]]]
              IN  IF drv = "query_rejects" THEN Throw(s1, DriverMsg("query"))
                  ELSE Return(s1, [tables |-> [i \in 1..Len(rows) |-> rows[i].table_name]])
    ELSE IF Is(s.currentConfig, "type", "mysql")
    THEN IF s.mysqlConnection = Null
         THEN Throw(s, <<"MySQL connection not initialized">>)
         ELSE LET s1 == Call(s, [op |-> "query", pool |-> s.mysqlConnection.id,
                                 sql |-> <<"SHOW TABLES FROM ", Embed(s.currentConfig, "database")>>])
                  tableKey == <<"Tables_in_", Embed(s.currentConfig, "database")>>
                  rows == [i \in 1..Len(TableNames) |-> [k \in {tableKey} |-> TableNames[i]]]
              IN  IF drv = "query_rejects" THEN Throw(s1, DriverMsg("query"))
                  ELSE Return(s1, [tables |-> [i \in 1..Len(rows) |-> rows[i][tableKey]]])
    ELSE Throw(s, <<"Unsupported database type: ", Embed(s.currentConfig, "type")>>)

listTables(s, drv) ==
    IF s.currentConfig = Null THEN Throw(s, NotConnectedMsg)
    ELSE ListConnected(s, drv)

\* the column rows the driver reports for a table
ColumnRows == <<[column_name |-> "id", data_type |-> "integer"]>>

\* lines 456-512
DescribeConnected(s, tableName, drv) ==
    IF Is(s.currentConfig, "type", "postgresql")
    THEN IF s.postgresPool = Null
         THEN Throw(s, <<"PostgreSQL connection not initialized">>)
         ELSE LET s1 == Call(s, [op |-> "query", pool |-> s.postgresPool.id,
                                 sql |-> "SELECT ... FROM information_schema.columns WHERE table_name = $1",
                                 params |-> <<tableName>>])
              IN  IF drv = "query_rejects" THEN Throw(s1, DriverMsg("query"))
                  ELSE Return(s1, [table |-> tableName, columns |-> ColumnRows])
    ELSE IF Is(s.currentConfig, "type", "mysql")
    THEN IF s.mysqlConnection = Null
         THEN Throw(s, <<"MySQL connection not initialized">>)
         ELSE LET s1 == Call(s, [op |-> "query", pool |-> s.mysqlConnection.id,
                                 sql |-> <<"DESCRIBE ", tableName>>])
              IN  IF drv = "query_rejects" THEN Throw(s1, DriverMsg("query"))
                  ELSE Return(s1, [table |-> tableName, columns |-> ColumnRows])
    ELSE Throw(s, <<"Unsupported database type: ", Embed(s.currentConfig, "type")>>)

\* describeTable answering with no columns when there is no connection
describeTable_Unguarded(s, tableName, drv) ==
    IF s.currentConfig = Null THEN Return(s, [table |-> tableName, columns |-> <<>>])
    ELSE DescribeConnected(s, tableName, drv)

describeTable(s, tableName, drv) ==
    IF s.currentConfig = Null THEN Throw(s, NotConnectedMsg)
    ELSE DescribeConnected(s, tableName, drv)

\* Respond letting what the handler threw pass
Respond_Rethrows(out) ==
    [s        |-> out.s,
     response |-> IF out.thrown # Null THEN [escaped |-> out.thrown.message]
                  ELSE out.value]

\* lines 231-241: what the handler threw becomes an error response
Respond(out) ==
    [s        |-> out.s,
     response |-> IF out.thrown # Null
                  THEN [content |-> <<[type |-> "text",
                                       text |-> <<"Error: ">> \o out.thrown.message]>>,
                        isError |-> TRUE]
                  ELSE out.value]

\* the CallToolRequestSchema handler: dispatch on the tool name, and turn
\* whatever the handler throws into an error response
CallTool(e, s, name, args, drv) ==
    Respond(CASE name = "connect_database"    -> connectDatabase(e, s, args, drv)
              [] name = "execute_query"       -> executeQuery(s, args.query, args.params, drv)
              [] name = "list_tables"         -> listTables(s, drv)
              [] name = "describe_table"      -> describeTable(s, args.tableName, drv)
              [] name = "disconnect_database" -> disconnectDatabase(s)
              [] OTHER                        -> Throw(s, <<"Unknown tool: ", name>>))

\* the message of the TypeError raised by reading the property f of undefined
TypeErrorMsg(f) == <<"Cannot read properties of undefined (reading '", f, "')">>

\* the same handler for a request whose params have no arguments member:
\* args is undefined, and the first read of a property of it throws
CallToolNoArguments(e, s, name, drv) ==
    Respond(CASE name = "connect_database"    -> Throw(s, TypeErrorMsg("type"))
              [] name = "execute_query"       -> Throw(s, TypeErrorMsg("query"))
              [] name = "list_tables"         -> listTables(s, drv)
              [] name = "describe_table"      -> Throw(s, TypeErrorMsg("tableName"))
              [] name = "disconnect_database" -> disconnectDatabase(s)
              [] OTHER                        -> Throw(s, <<"Unknown tool: ", name>>))

\* lines 100-105: the outcome of the start-up connect goes to the log only
LogOutcome(out) ==
    [s   |-> out.s,
     log |-> IF out.thrown = Null
             THEN <<"Auto-connected to database using environment variables">>
             ELSE <<"Failed to auto-connect from environment variables:">>
                    \o out.thrown.message]

\* lines 99-106, config being what getConfigFromEnv returned
AutoConnectWith(e, s, config, drv) ==
    IF config = Null THEN [s |-> s, log |-> <<>>]
    ELSE LogOutcome(connectDatabase(e, s, config, drv))

\* the constructor's un-awaited start-up connect; what it writes to the log
autoConnectFromEnv(e, s, drv) == AutoConnectWith(e, s, getConfigFromEnv(e), drv)

-----------------------------------------------------------------------------
(* Inputs: environments, explicit configurations, statements *)

\* pool objects one run may create
MaxPools == 3

DBNames == [host |-> "DB_HOST", port |-> "DB_PORT", database |-> "DB_DATABASE",
            user |-> "DB_USER", password |-> "DB_PASSWORD"]

PGNames == [host |-> "POSTGRES_HOST", port |-> "POSTGRES_PORT",
            database |-> "POSTGRES_DATABASE", user |-> "POSTGRES_USER",
            password |-> "POSTGRES_PASSWORD"]

MYNames == [host |-> "MYSQL_HOST", port |-> "MYSQL_PORT",
            database |-> "MYSQL_DATABASE", user |-> "MYSQL_USER",
            password |-> "MYSQL_PASSWORD"]

DBValues == [host |-> "db-host", port |-> <<"5", "4", "3", "2">>, database |-> "db-name",
             user |-> "db-user", password |-> "db-pw"]

PGValues == [host |-> "pg-host", port |-> <<"5", "4", "3", "3">>, database |-> "pg-name",
             user |-> "pg-user", password |-> "pg-pw"]

MYValues == [host |-> "my-host", port |-> <<"3", "3", "0", "6">>, database |-> "my-name",
             user |-> "my-user", password |-> "my-pw"]

\* the variables names[f], f in S, set to values[f]
NsEnv(names, values, S) ==
    [k \in {names[f] : f \in S} |-> values[CHOOSE f \in S : names[f] = k]]

\* which of the five located fields a namespace supplies: none, all, all
\* but one, or one alone
Shapes ==
    {{}, Located, Located \ {"host"}, {"host"}, {"port"}, {"database"}}

\* which of them a caller supplies
ExplicitShapes == {{}, Located, Located \ {"host"}, {"host"}}

Stable == {{}, Located}

Set(name, value) == name :> value

PlainTypes ==
    {<<>>,
     Set("DB_TYPE", <<"m", "y", "s", "q", "l">>),
     Set("DB_TYPE", <<"p", "o", "s", "t", "g", "r", "e", "s", "q", "l">>)}

TypeSettings ==
    PlainTypes
    \cup {Set("DB_TYPE", <<"M", "y", "S", "Q", "L">>),
          Set("DB_TYPE", <<"o", "r", "a", "c", "l", "e">>),
          Set("DATABASE_TYPE", <<"m", "y", "s", "q", "l">>),
          Set("DB_TYPE", <<>>) @@ Set("DATABASE_TYPE", <<"m", "y", "s", "q", "l">>)}

SslSettings ==
    {a @@ b @@ c :
        a \in {<<>>, Set("DB_SSL", "true"), Set("DB_SSL", "TRUE")},
        b \in {<<>>, Set("POSTGRES_SSL", "true")},
        c \in {<<>>, Set("MYSQL_SSL", "true")}}

EnvsOf(shapes, types, ssls) ==
    {NsEnv(DBNames, DBValues, a) @@ NsEnv(PGNames, PGValues, b)
        @@ NsEnv(MYNames, MYValues, c) @@ t @@ x :
        a \in shapes, b \in shapes, c \in shapes, t \in types, x \in ssls}

\* a complete generic namespace whose DB_PORT is not a plain port number
OddPortEnvs ==
    {Set("DB_PORT", port) @@ NsEnv(DBNames, DBValues, Located) :
        port \in {<<"a", "b", "c">>, <<"8", "0", "x">>, <<" ", "-", "7">>, <<"0">>, <<>>}}

ResolveEnvs ==
    EnvsOf(Shapes, PlainTypes, {<<>>})
    \cup EnvsOf(Stable, TypeSettings, {<<>>})
    \cup EnvsOf(Stable, PlainTypes, SslSettings)
    \cup OddPortEnvs

SessionEnvs ==
    {NsEnv(DBNames, DBValues, a) @@ NsEnv(MYNames, MYValues, c) :
        a \in Stable, c \in Stable}

ExplicitValues == [host |-> "x-host", port |-> Num(6000), database |-> "x-name",
                   user |-> "x-user", password |-> "x-pw"]

\* the arguments object of connect_database with the located fields S, the
\* type t ("" for none) and ssl ("unset", "true" or "false")
MkConfig(S, t, ssl) ==
    [f \in S \cup (IF t = "" THEN {} ELSE {"type"})
             \cup (IF ssl = "unset" THEN {} ELSE {"ssl"}) |->
        IF f = "type" THEN t
        ELSE IF f = "ssl" THEN ssl = "true"
        ELSE ExplicitValues[f]]

ConfigsOf(shapes, ssls) ==
    {MkConfig(S, t, ssl) :
        S \in shapes, t \in {"", "postgresql", "mysql", "oracle"}, ssl \in ssls}

\* complete but for one falsy value
FalsyConfigs ==
    {[MkConfig(Located, "postgresql", "unset") EXCEPT !.port = Num(0)],
     [MkConfig(Located, "mysql", "unset") EXCEPT !.password = ""]}

ResolveConfigs ==
    ConfigsOf(ExplicitShapes, {"unset", "true", "false"}) \cup FalsyConfigs

SessionConfigs == ConfigsOf({{}, Located, {"host"}}, {"unset"})

Queries == {[query |-> "SELECT 1", params |-> Null],
            [query |-> "UPDATE t SET a = $1", params |-> <<7>>]}

-----------------------------------------------------------------------------
(* The state machine *)

\* the session the next handler starts from
Session ==
    [currentConfig   |-> currentConfig,
     postgresPool    |-> postgresPool,
     mysqlConnection |-> mysqlConnection,
     pools           |-> pools,
     calls           |-> <<>>]

\* what the driver may do with a connect to finalConfig
ConnectOutcomes(finalConfig) ==
    IF finalConfig = Null THEN {"none"}
    ELSE IF Is(finalConfig, "type", "postgresql")
    THEN {"ok", "connect_rejects", "query_rejects"}
    ELSE IF Is(finalConfig, "type", "mysql") THEN {"ok", "query_rejects"}
    ELSE {"none"}

\* what the driver may do with a statement sent over the session s
QueryOutcomes(s, reads) ==
    IF \/ s.currentConfig = Null
       \/ ~Is(s.currentConfig, "type", "postgresql") /\ ~Is(s.currentConfig, "type", "mysql")
       \/ Is(s.currentConfig, "type", "postgresql") /\ s.postgresPool = Null
       \/ Is(s.currentConfig, "type", "mysql") /\ s.mysqlConnection = Null
    THEN {"none"}
    ELSE reads \cup {"query_rejects"}

\* what the last handler started from: whether a configuration and a pool
\* were held
Before == [config |-> currentConfig # Null,
           pool   |-> postgresPool # Null \/ mysqlConnection # Null]

\* the session after a handler that left it as s
Leave(s) ==
    /\ Len(s.pools) <= MaxPools
    /\ currentConfig' = s.currentConfig
    /\ postgresPool' = s.postgresPool
    /\ mysqlConnection' = s.mysqlConnection
    /\ pools' = s.pools

\* no handler is suspended
NoneRunning == <<>>

\* nothing has run but the synchronous part of the constructor (lines 29-31)
Constructed ==
    [tool |-> "constructor", calls |-> <<>>,
     before |-> [config |-> FALSE, pool |-> FALSE], prev |-> "constructor"]

Init ==
    /\ env \in SessionEnvs
    /\ currentConfig = Null
    /\ postgresPool = Null
    /\ mysqlConnection = Null
    /\ pools = <<>>
    /\ phase = "boot"
    /\ last = Constructed
    /\ running = NoneRunning

\* the start-up connect, run to its end, left the session and the log of out
Started(out) ==
    /\ phase = "boot"
    /\ Leave(out.s)
    /\ last' = [tool |-> "autoConnectFromEnv", log |-> out.log,
                calls |-> out.s.calls, before |-> Before, prev |-> last.tool]
    /\ phase' = "serving"
    /\ UNCHANGED <<env, running>>

AutoConnect ==
    \E drv \in ConnectOutcomes(getConfigFromEnv(env)) :
        Started(autoConnectFromEnv(env, Session, drv))

\* the tool call name(args), run to its end, left the session and response of out
Served(name, args, drv, out) ==
    /\ phase = "serving"
    /\ Leave(out.s)
    /\ last' = [tool |-> name, args |-> args, response |-> out.response,
                calls |-> out.s.calls, before |-> Before, prev |-> last.tool,
                drv |-> drv]
    /\ UNCHANGED <<env, phase, running>>

\* one tool call, run from its request to its response with no other handler
\* in between; drv is what the driver did with it
Serve(name, args, drv) == Served(name, args, drv, CallTool(env, Session, name, args, drv))

ConnectDatabase(configs) ==
    \E config \in configs :
        \E drv \in ConnectOutcomes(FinalConfig(env, config)) :
            Serve("connect_database", config, drv)

ExecuteQuery ==
    \E q \in Queries : \E drv \in QueryOutcomes(Session, {"read", "write"}) :
        Serve("execute_query", q, drv)

ListTables ==
    \E drv \in QueryOutcomes(Session, {"ok"}) : Serve("list_tables", Null, drv)

DescribeTable ==
    \E drv \in QueryOutcomes(Session, {"ok"}) :
        Serve("describe_table", [tableName |-> "users"], drv)

DisconnectDatabase == Serve("disconnect_database", Null, "none")

Next ==
    \/ AutoConnect
    \/ ConnectDatabase(SessionConfigs)
    \/ ExecuteQuery
    \/ ListTables
    \/ DescribeTable
    \/ DisconnectDatabase

Spec == Init /\ [][Next]_vars

ToolNames == {"connect_database", "execute_query", "list_tables", "describe_table",
              "disconnect_database"}

\* names no tool has
UnknownNames == {"drop_database"}

\* a call of a tool that does not exist
UnknownTool ==
    \E name \in UnknownNames : \E args \in {Null} \cup Queries :
        Serve(name, args, "none")

\* the tool call name without arguments, run to its end
ServedBare(name, drv, out) ==
    /\ phase = "serving"
    /\ Leave(out.s)
    /\ last' = [tool |-> name, response |-> out.response,
                calls |-> out.s.calls, before |-> Before, prev |-> last.tool,
                drv |-> drv]
    /\ UNCHANGED <<env, phase, running>>

\* a call whose params have no arguments member
MissingArguments ==
    \E name \in ToolNames \cup UnknownNames :
        \E drv \in (IF name = "list_tables" THEN QueryOutcomes(Session, {"ok"})
                     ELSE {"none"}) :
            ServedBare(name, drv, CallToolNoArguments(env, Session, name, drv))

\* The session with every request a client can send: the calls of Next, and
\* calls of unknown tools and calls without arguments
NextRequests == Next \/ UnknownTool \/ MissingArguments

SpecRequests == Init /\ [][NextRequests]_vars

\* Configuration resolution on its own: any environment of ResolveEnvs, the
\* start-up connect, then one connect_database with any explicit configuration
InitResolve ==
    /\ env \in ResolveEnvs
    /\ currentConfig = Null
    /\ postgresPool = Null
    /\ mysqlConnection = Null
    /\ pools = <<>>
    /\ phase = "boot"
    /\ last = Constructed
    /\ running = NoneRunning

ConnectOnce ==
    /\ last.tool = "autoConnectFromEnv"
    /\ ConnectDatabase(ResolveConfigs)

NextResolve == AutoConnect \/ ConnectOnce

SpecResolve == InitResolve /\ [][NextResolve]_vars


-----------------------------------------------------------------------------
(* Handlers that overlap.  An async method runs until it reaches an await  *)
(* and is resumed later; between the two, other handlers run on the same   *)
(* fields.  A handler h is kept in running[h] as                           *)
(*   pc      where it is suspended: "idle" (not started), "end_pg" (line   *)
(*           517), "end_my" (line 522), "closed" (line 275 or 544, after   *)
(*           disconnectDatabase returned), "connect" (line 291),           *)
(*           "probe_pg" (line 292), "probe_my" (line 316), "closing" (line *)
(*           545), "done"                                                  *)
(*   config  the finalConfig of a connect                                  *)
(*   pool    the pool the connect created                                  *)
(*   again   end() was called on a pool that had been ended already        *)
(*   result  "ok" or "failed" once done                                    *)
(* The handlers are the start-up connect "auto", two connect_database      *)
(* calls "a" and "b", a disconnect_database call "d" and the SIGINT        *)
(* listener "sigint".                                                      *)
(***************************************************************************)

Handlers == {"auto", "a", "b", "d", "sigint"}

Idle == [pc |-> "idle", config |-> Null, pool |-> Null, again |-> FALSE, result |-> ""]

Suspend(r, pc) == [r EXCEPT !.pc = pc]

Finish(r, result) == [r EXCEPT !.pc = "done", !.result = result]

\* lines 521-526 up to the next await: the test of this.mysqlConnection, the
\* call of end(), or the reset of currentConfig and the return
CloseMysql(s, r) ==
    IF s.mysqlConnection # Null
    THEN [s |-> End(s, s.mysqlConnection),
          r |-> [r EXCEPT !.pc = "end_my",
                          !.again = s.pools[s.mysqlConnection.id] = "ended"]]
    ELSE [s |-> [s EXCEPT !.currentConfig = Null], r |-> Suspend(r, "closed")]

\* lines 516-517: disconnectDatabase from its start to its first await
ClosePostgres(s, r) ==
    IF s.postgresPool # Null
    THEN [s |-> End(s, s.postgresPool),
          r |-> [r EXCEPT !.pc = "end_pg",
                          !.again = s.pools[s.postgresPool.id] = "ended"]]
    ELSE CloseMysql(s, r)

\* line 518 and on, once postgresPool.end() settled
AfterEndPostgres(s, r, drv) ==
    IF drv = "end_rejects" THEN [s |-> s, r |-> Finish(r, "failed")]
    ELSE CloseMysql([s EXCEPT !.postgresPool = Null], r)

\* lines 523-526, once mysqlConnection.end() settled
AfterEndMysql(s, r, drv) ==
    IF drv = "end_rejects" THEN [s |-> s, r |-> Finish(r, "failed")]
    ELSE [s |-> [s EXCEPT !.mysqlConnection = Null, !.currentConfig = Null],
          r |-> Suspend(r, "closed")]

\* lines 252-275 once finalConfig is known: throw, or enter disconnectDatabase
BeginWith(s, r, finalConfig) ==
    IF finalConfig = Null THEN [s |-> s, r |-> Finish(r, "failed")]
    ELSE ClosePostgres(s, [r EXCEPT !.config = finalConfig])

\* connectDatabase from its start to its first await
BeginConnect(e, s, r, config) == BeginWith(s, r, FinalConfig(e, config))

\* lines 277-316 up to the await of the probe
BeginProbe(s, r) ==
    IF Is(r.config, "type", "postgresql")
    THEN [s |-> HoldPostgres(NewPool(SetConfig(s, r.config), "pg", r.config)),
          r |-> [r EXCEPT !.pc = "connect", !.pool = [id |-> Len(s.pools) + 1]]]
    ELSE IF Is(r.config, "type", "mysql")
    THEN [s |-> HoldMysql(NewPool(SetConfig(s, r.config), "mysql", r.config)),
          r |-> [r EXCEPT !.pc = "probe_my", !.pool = [id |-> Len(s.pools) + 1]]]
    ELSE [s |-> SetConfig(s, r.config), r |-> Finish(r, "failed")]

\* lines 291-292, once pool.connect() settled
AfterConnect(s, r, drv) ==
    IF drv = "connect_rejects" THEN [s |-> s, r |-> Finish(r, "failed")]
    ELSE [s |-> s, r |-> Suspend(r, "probe_pg")]

\* lines 292-302 and 316-325, once the SELECT NOW() probe settled
AfterProbe(s, r, drv) ==
    IF drv = "query_rejects" THEN [s |-> s, r |-> Finish(r, "failed")]
    ELSE [s |-> s, r |-> Finish(r, "ok")]

\* autoConnectFromEnv from its start to its first await
BeginAutoConnect(e, s, r, config) ==
    IF config = Null THEN [s |-> s, r |-> Finish(r, "ok")]
    ELSE BeginConnect(e, s, r, config)

\* what end() may do: it resolves; called again on a pool that was ended it
\* resolves or rejects, as the driver has it
EndOutcomes(r) == IF r.again THEN {"ok", "end_rejects"} ELSE {"ok"}

\* the explicit configurations of overlapping connects
OverlapConfigs ==
    {MkConfig(Located, "postgresql", "unset"), MkConfig(Located, "mysql", "unset")}

ToolOf(h) ==
    IF h = "auto" THEN "autoConnectFromEnv"
    ELSE IF h = "sigint" THEN "SIGINT"
    ELSE IF h = "d" THEN "disconnect_database" ELSE "connect_database"

\* continuations of an await on a value that is settled already run before
\* any event of the driver, of stdin or of a signal is handled
Ticking == {h \in Handlers : running[h].pc \in {"closed", "closing"}}

\* handler h ran from where it was to its next await (or its end) and left out
Stepped(h, out) ==
    /\ phase # "exited"
    /\ Leave(out.s)
    /\ running' = [running EXCEPT ![h] = out.r]
    /\ last' = IF out.r.pc = "done"
               THEN [tool |-> ToolOf(h), handler |-> h, result |-> out.r.result,
                     prev |-> last.tool]
               ELSE last
    /\ phase' = IF h = "auto" /\ out.r.pc # "closed" THEN "serving" ELSE phase
    /\ UNCHANGED env

InitOverlap ==
    /\ env \in SessionEnvs
    /\ currentConfig = Null
    /\ postgresPool = Null
    /\ mysqlConnection = Null
    /\ pools = <<>>
    /\ phase = "boot"
    /\ last = Constructed
    /\ running = [h \in Handlers |-> Idle]

\* line 35: the constructor calls autoConnectFromEnv and does not await it
StartUp ==
    /\ phase = "boot"
    /\ running["auto"].pc = "idle"
    /\ Stepped("auto", BeginAutoConnect(env, Session, running["auto"], getConfigFromEnv(env)))

\* a connect_database request is taken up while other handlers are suspended
RequestConnect ==
    \E h \in {"a", "b"} : \E config \in OverlapConfigs :
        /\ phase = "serving"
        /\ running[h].pc = "idle"
        /\ h = "b" => running["a"].pc # "idle"
        /\ Ticking \subseteq {"a", "b", "d"}
        /\ Stepped(h, BeginConnect(env, Session, running[h], config))

\* lines 543-544: SIGINT arrives
Sigint ==
    /\ phase = "serving"
    /\ running["sigint"].pc = "idle"
    /\ Ticking = {}
    /\ Stepped("sigint", ClosePostgres(Session, running["sigint"]))

\* a pending end() settles
EndSettles ==
    \E h \in Handlers : \E drv \in EndOutcomes(running[h]) :
        /\ Ticking = {}
        /\ \/ /\ running[h].pc = "end_pg"
              /\ Stepped(h, AfterEndPostgres(Session, running[h], drv))
           \/ /\ running[h].pc = "end_my"
              /\ Stepped(h, AfterEndMysql(Session, running[h], drv))

\* a handler goes on after await this.disconnectDatabase()
Closed ==
    \E h \in Handlers :
        /\ running[h].pc = "closed"
        /\ IF h = "sigint"
           THEN Stepped(h, [s |-> Session, r |-> Suspend(running[h], "closing")])
           ELSE IF h = "d"
           THEN Stepped(h, [s |-> Session, r |-> Finish(running[h], "ok")])
           ELSE Stepped(h, BeginProbe(Session, running[h]))

\* a pending pool.connect() settles
ConnectSettles ==
    \E h \in Handlers : \E drv \in {"ok", "connect_rejects"} :
        /\ Ticking = {}
        /\ running[h].pc = "connect"
        /\ Stepped(h, AfterConnect(Session, running[h], drv))

\* a pending SELECT NOW() settles
ProbeSettles ==
    \E h \in Handlers : \E drv \in {"ok", "query_rejects"} :
        /\ Ticking = {}
        /\ running[h].pc \in {"probe_pg", "probe_my"}
        /\ Stepped(h, AfterProbe(Session, running[h], drv))

\* lines 545-546: server.close() is over and the process exits
Exit ==
    /\ running["sigint"].pc = "closing"
    /\ phase # "exited"
    /\ phase' = "exited"
    /\ running' = [running EXCEPT !["sigint"] = Finish(@, "ok")]
    /\ last' = [tool |-> "SIGINT", handler |-> "sigint", result |-> "ok",
                prev |-> last.tool]
    /\ UNCHANGED <<env, currentConfig, postgresPool, mysqlConnection, pools>>

NextOverlap ==
    \/ StartUp
    \/ RequestConnect
    \/ Sigint
    \/ EndSettles
    \/ Closed
    \/ ConnectSettles
    \/ ProbeSettles
    \/ Exit

SpecOverlap == InitOverlap /\ [][NextOverlap]_vars

\* a disconnect_database request is taken up while other handlers are
\* suspended
RequestDisconnect ==
    /\ phase = "serving"
    /\ running["d"].pc = "idle"
    /\ Ticking \subseteq {"a", "b", "d"}
    /\ Stepped("d", ClosePostgres(Session, running["d"]))

\* the one connect_database request of SpecClose
RequestConnectOnce ==
    /\ running["a"].pc = "idle"
    /\ RequestConnect

\* The start-up connect, one connect_database call, one disconnect_database
\* call and SIGINT, overlapping
NextClose ==
    \/ StartUp
    \/ RequestConnectOnce
    \/ RequestDisconnect
    \/ Sigint
    \/ EndSettles
    \/ Closed
    \/ ConnectSettles
    \/ ProbeSettles
    \/ Exit

SpecClose == InitOverlap /\ [][NextClose]_vars

-----------------------------------------------------------------------------
(* Vocabulary of the properties *)

Disconnected == currentConfig = Null /\ postgresPool = Null /\ mysqlConnection = Null

ReadTools == {"execute_query", "list_tables", "describe_table"}

ErrorResponse(message) ==
    [content |-> <<[type |-> "text", text |-> <<"Error: ">> \o message]>>,
     isError |-> TRUE]

OkResponse(text) == [content |-> <<[type |-> "text", text |-> text]>>]

Failed(r) == "isError" \in DOMAIN r

\* the positions of the driver calls op in the last handler
CallsOf(op) == {i \in 1..Len(last.calls) : last.calls[i].op = op}

\* the last handler was a connect_database that got as far as the driver and
\* was failed by it
ConnectFailedByDriver ==
    /\ last.tool = "connect_database"
    /\ last.response \in {ErrorResponse(DriverMsg("connect")), ErrorResponse(DriverMsg("query"))}

\* the last handler was a connect_database that resolved a configuration
Resolved ==
    /\ last.tool = "connect_database"
    /\ last.response # ErrorResponse(IncompleteMsg)

OpenPools == {p \in 1..Len(pools) : pools[p] = "open"}

-----------------------------------------------------------------------------
(* C1 - C10 *)

\* C1: after a connect_database that the driver failed (pool connect or the
\* SELECT NOW() probe rejected) the session is Disconnected: currentConfig,
\* postgresPool and mysqlConnection are all null.
C1_FailedConnectLeavesDisconnected == ConnectFailedByDriver => Disconnected

\* C2: between tool calls a pool is held exactly when a configuration is held.
C2_AdapterIffConfig ==
    (currentConfig # Null) <=> (postgresPool # Null \/ mysqlConnection # Null)

\* C3: a connect that creates a pool has ended the pool held before (end
\* comes before create among its driver calls, and at the create no other
\* pool is open), the pool held after it is the one it created, and at most
\* one pool is created and not ended.
C3_ReconnectEndsPriorPool ==
    /\ Cardinality(OpenPools) <= 1
    /\ last.tool = "connect_database" =>
         \A j \in CallsOf("create") :
            /\ last.before.pool => \E i \in CallsOf("end") : i < j
            /\ \A i \in CallsOf("end") : i < j /\ last.calls[i].pool # last.calls[j].pool
            /\ OpenPools \subseteq {last.calls[j].pool}
            /\ \A q \in {postgresPool, mysqlConnection} \ {Null} :
                  q.id = last.calls[j].pool
    /\ (Resolved /\ last.before.pool) =>
         /\ CallsOf("end") # {}
         /\ \A q \in {postgresPool, mysqlConnection} \ {Null} :
               \E j \in CallsOf("create") : last.calls[j].pool = q.id

\* a reconnect: a connect, started while a pool was held, that created a pool
C3_Witness ==
    /\ last.tool = "connect_database"
    /\ last.before.pool
    /\ CallsOf("create") # {}
    /\ ~Failed(last.response)


\* C4: execute_query, list_tables and describe_table called while the session
\* is Disconnected fail with the not-connected error, make no driver call and
\* leave the configuration, both pool slots and the pools as they were.
C4_ReadsNeedConnection ==
    [][(Disconnected /\ last'.tool \in ReadTools) =>
          /\ last'.response = ErrorResponse(NotConnectedMsg)
          /\ last'.calls = <<>>
          /\ UNCHANGED <<currentConfig, postgresPool, mysqlConnection, pools>>]_vars

\* a read refused right after a disconnect_database that followed a connect
C4_Witness ==
    /\ last.tool \in ReadTools
    /\ last.prev = "disconnect_database"
    /\ Len(pools) > 0
    /\ Disconnected
    /\ last.response = ErrorResponse(NotConnectedMsg)

\* C5: disconnect_database always answers 'Disconnected from database' and
\* leaves the session Disconnected; the pool held before it is ended by it;
\* from Disconnected it makes no driver call and changes nothing, so a second
\* call in a row leaves the state of the first.
C5_DisconnectIdempotent ==
    [][last'.tool = "disconnect_database" =>
          /\ last'.response = OkResponse(DisconnectedMsg)
          /\ Disconnected'
          /\ \A q \in {postgresPool, mysqlConnection} \ {Null} :
                /\ pools'[q.id] = "ended"
                /\ \E i \in 1..Len(last'.calls) :
                      last'.calls[i] = [op |-> "end", pool |-> q.id]
          /\ Disconnected =>
                /\ last'.calls = <<>>
                /\ UNCHANGED <<currentConfig, postgresPool, mysqlConnection, pools>>]_vars

\* the second of two disconnect_database calls in a row, after a connect
C5_Witness ==
    /\ last.tool = "disconnect_database"
    /\ last.prev = "disconnect_database"
    /\ ~last.before.config
    /\ Len(pools) > 0
    /\ last.response = OkResponse(DisconnectedMsg)

\* C6: execute_query, list_tables and describe_table, failing or not, leave
\* currentConfig, postgresPool and mysqlConnection as they were; only
\* connect_database (from a tool call or at start-up) and disconnect_database
\* change them.
C6_ReadsKeepSession ==
    [][/\ last'.tool \in ReadTools =>
             UNCHANGED <<currentConfig, postgresPool, mysqlConnection, pools>>
       /\ <<currentConfig, postgresPool, mysqlConnection>>' #
             <<currentConfig, postgresPool, mysqlConnection>> =>
             last'.tool \in {"connect_database", "disconnect_database",
                             "autoConnectFromEnv"}]_vars

\* a read that the driver rejected while a configuration and a pool were held
C6_Witness ==
    /\ last.tool \in ReadTools
    /\ last.response = ErrorResponse(DriverMsg("query"))
    /\ currentConfig # Null
    /\ postgresPool # Null \/ mysqlConnection # Null

-----------------------------------------------------------------------------
(* What the environment offers, read off the variables themselves *)

CharVars == {"DB_PORT", "POSTGRES_PORT", "MYSQL_PORT", "DB_TYPE", "DATABASE_TYPE"}

\* the variable is set to a non-empty string
IsSet(e, name) ==
    /\ name \in DOMAIN e
    /\ IF name \in CharVars THEN e[name] # <<>> ELSE e[name] # ""

\* no variable of any namespace supplies the field f
EnvLacks(e, f) ==
    IF f = "type"
    THEN /\ ~IsSet(e, "DB_TYPE") /\ ~IsSet(e, "DATABASE_TYPE")
         /\ \A g \in Located : ~IsSet(e, MYNames[g])
         /\ \A g \in {"host", "database"} : ~IsSet(e, DBNames[g]) /\ ~IsSet(e, PGNames[g])
    ELSE ~IsSet(e, DBNames[f]) /\ ~IsSet(e, PGNames[f]) /\ ~IsSet(e, MYNames[f])

\* the backends the environment points to: the one DB_TYPE / DATABASE_TYPE
\* names, else mysql for any MYSQL_* variable and postgresql for a generic or
\* POSTGRES_* host or database
EnvTypes(e) ==
    IF IsSet(e, "DB_TYPE") \/ IsSet(e, "DATABASE_TYPE")
    THEN {IF toLowerCase(IF IsSet(e, "DB_TYPE") THEN e["DB_TYPE"] ELSE e["DATABASE_TYPE"])
             = <<"m", "y", "s", "q", "l">>
          THEN "mysql" ELSE "postgresql"}
    ELSE {"mysql" : g \in {g \in Located : IsSet(e, MYNames[g])}}
         \cup {"postgresql" : g \in {g \in {"host", "database"} :
                                       IsSet(e, DBNames[g]) \/ IsSet(e, PGNames[g])}}

\* the values the environment has for the field f of a backend t
EnvOffers(e, t, f) ==
    IF f = "type" THEN {t}
    ELSE {IF f = "port" THEN parseInt(e[n]) ELSE e[n] :
            n \in {n \in (IF t = "postgresql" THEN {DBNames[f], PGNames[f]}
                          ELSE {MYNames[f]}) : IsSet(e, n)}}

\* the explicit configuration of the last connect ({} at start-up)
LastArgs == IF last.tool = "connect_database" THEN last.args ELSE <<>>

\* the property f of the explicit configuration c is truthy
Given(c, f) == IF f = "port" THEN TruthyNum(c, f) ELSE TruthyStr(c, f)

\* C7: when some required field is missing both in the explicit
\* configuration and in the environment, connect_database fails with the
\* incomplete-configuration error and makes no driver call; and no pool is
\* created while the configuration lacks a required field.
C7_IncompleteNeverConnects ==
    /\ (/\ last.tool = "connect_database"
        /\ \E f \in Required : f \notin DOMAIN last.args /\ EnvLacks(env, f))
       => /\ last.response = ErrorResponse(IncompleteMsg)
          /\ last.calls = <<>>
    /\ \A j \in 1..Len(last.calls) :
          last.calls[j].op = "create" =>
             /\ currentConfig # Null
             /\ Required \subseteq DOMAIN currentConfig
             /\ Located \subseteq DOMAIN last.calls[j].options

\* a connect refused although caller and environment each supply something
C7_Witness ==
    /\ last.tool = "connect_database"
    /\ \E f \in Required : f \notin DOMAIN last.args /\ EnvLacks(env, f)
    /\ DOMAIN last.args \cap Required # {}
    /\ \E f \in Located : ~EnvLacks(env, f)
    /\ last.response = ErrorResponse(IncompleteMsg)

\* C8: for a partial explicit configuration whose missing fields the
\* environment supplies, connect_database resolves a configuration in which
\* every field is the explicit value when given and a value of the
\* environment otherwise (the environment need not be complete by itself).
C8_PartialEnvMerges ==
    \A t \in EnvTypes(env) :
       (/\ last.tool = "connect_database"
        /\ EnvTypes(env) = {t}
        /\ \E f \in Required : f \notin DOMAIN last.args
        /\ \A f \in Required \cap DOMAIN last.args : Given(last.args, f)
        /\ \A f \in Required \ DOMAIN last.args : EnvOffers(env, t, f) # {})
       => /\ Resolved
          /\ \A f \in Required :
                IF f \in DOMAIN last.args THEN currentConfig[f] = last.args[f]
                ELSE currentConfig[f] \in EnvOffers(env, t, f)

\* the environment names PostgreSQL and nothing of MySQL
PgEnv(e) ==
    /\ EnvTypes(e) = {"postgresql"}
    /\ \A g \in Located : ~IsSet(e, MYNames[g])

\* C9: for PostgreSQL, a field the caller does not give and for which both
\* POSTGRES_X and DB_X are set resolves to the POSTGRES_X value.
C9_SpecificBeatsGeneric ==
    (/\ last.tool \in {"connect_database", "autoConnectFromEnv"}
     /\ PgEnv(env)
     /\ currentConfig # Null
     /\ Is(currentConfig, "type", "postgresql"))
    => \A f \in Located :
          (/\ f \notin DOMAIN LastArgs
           /\ IsSet(env, DBNames[f])
           /\ IsSet(env, PGNames[f]))
          => currentConfig[f] = (IF f = "port" THEN parseInt(env[PGNames[f]])
                                 ELSE env[PGNames[f]])

\* DB_SSL or the *_SSL variable of backend t is the literal "true"
EnvSsl(e, t) ==
    \/ EnvIsTrue(e, "DB_SSL")
    \/ t = "postgresql" /\ EnvIsTrue(e, "POSTGRES_SSL")
    \/ t = "mysql" /\ EnvIsTrue(e, "MYSQL_SSL")

\* C10: the resolved ssl flag is the explicit ssl when the caller gave one,
\* and otherwise the flag of the environment (for the backend resolved, or
\* for the backend the environment points to).
C10_SslResolution ==
    Resolved =>
       LET flag == "ssl" \in DOMAIN currentConfig /\ currentConfig.ssl
       IN  IF "ssl" \in DOMAIN last.args THEN flag = last.args.ssl
           ELSE flag \in {EnvSsl(env, t) :
                            t \in EnvTypes(env) \cup {Embed(currentConfig, "type")}}

-----------------------------------------------------------------------------
(* C11 - C20 *)

\* the backend the environment determines, read off the variables in the
\* order: DB_TYPE / DATABASE_TYPE, then any MYSQL_* variable, then a generic
\* or POSTGRES_* host or database; "" when none of them is set
OrderedType(e) ==
    IF IsSet(e, "DB_TYPE") \/ IsSet(e, "DATABASE_TYPE")
    THEN (IF toLowerCase(IF IsSet(e, "DB_TYPE") THEN e["DB_TYPE"] ELSE e["DATABASE_TYPE"])
             = <<"m", "y", "s", "q", "l">>
          THEN "mysql" ELSE "postgresql")
    ELSE IF \E g \in Located : IsSet(e, MYNames[g]) THEN "mysql"
    ELSE IF \E g \in {"host", "database"} : IsSet(e, DBNames[g]) \/ IsSet(e, PGNames[g])
    THEN "postgresql"
    ELSE ""

\* the last handler took its type from the environment: the start-up
\* connect, or a connect_database without an explicit type
TypeFromEnv ==
    \/ last.tool = "autoConnectFromEnv"
    \/ last.tool = "connect_database" /\ "type" \notin DOMAIN last.args

\* C11: the type taken from the environment is the one DB_TYPE /
\* DATABASE_TYPE names (mysql when it is 'mysql' in any case, postgresql for
\* any other value), else mysql when any MYSQL_* variable is set, else
\* postgresql when a generic or POSTGRES_* host or database is set; when
\* none is set the type is undetermined and nothing is connected.
C11_TypeDetermination ==
    TypeFromEnv =>
       /\ OrderedType(env) = "" =>
             /\ last.calls = <<>>
             /\ last.tool = "connect_database" => last.response = ErrorResponse(IncompleteMsg)
       /\ last.calls # <<>> => Is(currentConfig, "type", OrderedType(env))

\* DB_TYPE says mysql, the five DB_* variables are set and no MYSQL_* is
GenericMysqlEnv(e) ==
    /\ IsSet(e, "DB_TYPE")
    /\ toLowerCase(e["DB_TYPE"]) = <<"m", "y", "s", "q", "l">>
    /\ \A f \in Located : IsSet(e, DBNames[f]) /\ ~IsSet(e, MYNames[f])

\* C12: with DB_TYPE=mysql, DB_HOST, DB_PORT, DB_DATABASE, DB_USER and
\* DB_PASSWORD set and no MYSQL_* variable, the start-up connect and
\* connect_database({}) create a MySQL pool from the DB_* values.
C12_GenericVarsServeMysql ==
    (/\ GenericMysqlEnv(env)
     /\ \/ last.tool = "autoConnectFromEnv"
        \/ last.tool = "connect_database" /\ DOMAIN last.args = {})
    => \E j \in CallsOf("create") :
          /\ last.calls[j].kind = "mysql"
          /\ last.calls[j].options.host = env["DB_HOST"]
          /\ last.calls[j].options.port = parseInt(env["DB_PORT"])
          /\ last.calls[j].options.database = env["DB_DATABASE"]
          /\ last.calls[j].options.user = env["DB_USER"]
          /\ last.calls[j].options.password = env["DB_PASSWORD"]

\* the last handler was a connect_database that answered without an error
ConnectSucceeded == last.tool = "connect_database" /\ ~Failed(last.response)

\* the text of a successful connect to database@host:port
SuccessText(backend, database, host, port) ==
    <<"Successfully connected to ", backend, " database: ", database, "@", host, ":",
      NumToString(port)>>

BackendName(type) == IF type = "mysql" THEN "MySQL" ELSE "PostgreSQL"

\* the five generic variables are set and nothing else is
GenericPgEnv(e) == \A f \in Located : IsSet(e, DBNames[f]) /\ ~IsSet(e, MYNames[f])

\* a successful connect left the configuration it was asked for: the
\* explicit one when that was complete, the generic environment's for {}
ConnectedAsAsked ==
    /\ Required \subseteq DOMAIN last.args =>
          /\ currentConfig = last.args
          /\ last.response = OkResponse(SuccessText(BackendName(last.args.type),
                 last.args.database, last.args.host, last.args.port))
    /\ (DOMAIN last.args = {} /\ GenericPgEnv(env)) =>
          /\ Is(currentConfig, "type", "postgresql")
          /\ Is(currentConfig, "host", env["DB_HOST"])
          /\ Is(currentConfig, "port", parseInt(env["DB_PORT"]))
          /\ Is(currentConfig, "database", env["DB_DATABASE"])
          /\ last.response = OkResponse(SuccessText("PostgreSQL", env["DB_DATABASE"],
                 env["DB_HOST"], parseInt(env["DB_PORT"])))
    /\ \E j \in CallsOf("create") :
          /\ pools[last.calls[j].pool] = "open"
          /\ IF Is(currentConfig, "type", "mysql")
             THEN /\ last.calls[j].kind = "mysql"
                  /\ mysqlConnection = [id |-> last.calls[j].pool]
             ELSE /\ last.calls[j].kind = "pg"
                  /\ postgresPool = [id |-> last.calls[j].pool]

\* the pool of the configured type
ConfiguredPool ==
    IF Is(currentConfig, "type", "mysql") THEN mysqlConnection ELSE postgresPool

\* C13: a connect_database that succeeds (a complete explicit configuration
\* of type postgresql or mysql, or {} with a complete environment, and the
\* driver's probe passing) answers 'Successfully connected to ...' naming
\* database@host:port of the configuration, leaves that configuration in
\* currentConfig and its pool in the slot of its type; an execute_query right
\* after it does not fail with the not-connected error and sends its
\* statement to that pool.
C13_ConnectThenQuery ==
    [][/\ ConnectSucceeded' => ConnectedAsAsked'
       /\ (ConnectSucceeded /\ last'.tool = "execute_query") =>
             /\ last'.response # ErrorResponse(NotConnectedMsg)
             /\ Len(last'.calls) = 1
             /\ ConfiguredPool # Null
             /\ last'.calls[1].op = "query"
             /\ last'.calls[1].pool = ConfiguredPool.id
             /\ last'.calls[1].sql = last'.args.query]_vars

\* an execute_query answered with rows right after a connect_database
C13_Witness ==
    /\ last.tool = "execute_query"
    /\ last.prev = "connect_database"
    /\ ~Failed(last.response)
    /\ Len(last.calls) = 1
    /\ ConfiguredPool # Null
    /\ last.calls[1].pool = ConfiguredPool.id
    /\ pools[ConfiguredPool.id] = "open"

\* the start-up connect logged a failure
StartupFailed ==
    /\ last.tool = "autoConnectFromEnv"
    /\ Len(last.log) > 0
    /\ last.log[1] = "Failed to auto-connect from environment variables:"

\* C14: the start-up connect ends without an error of its own; when the
\* environment resolves to no configuration it makes no driver call and the
\* session is Disconnected, and when its connect fails the failure is logged
\* and the session is Disconnected: currentConfig and both pools are null.
C14_StartupFailureLeavesDisconnected ==
    /\ (last.tool = "autoConnectFromEnv" /\ last.log = <<>>) =>
          /\ last.calls = <<>>
          /\ Disconnected
    /\ StartupFailed => Disconnected

\* r is a tool result: one text item, and for a failure isError = TRUE and
\* the text 'Error: ' followed by the message
ToolResult(r) ==
    /\ DOMAIN r \in {{"content"}, {"content", "isError"}}
    /\ Len(r.content) = 1
    /\ DOMAIN r.content[1] = {"type", "text"}
    /\ r.content[1].type = "text"
    /\ "isError" \in DOMAIN r =>
          /\ r.isError = TRUE
          /\ Len(r.content[1].text) > 1
          /\ r.content[1].text[1] = "Error: "

\* C15: every tool call, whatever the session, the tool name (known or not)
\* and the arguments (present or not), and whatever the driver does, is
\* answered with a result: a success, or isError = TRUE with the message of
\* the failure; nothing thrown leaves the handler.
C15_EveryCallAnswered ==
    last.tool \notin {"constructor", "autoConnectFromEnv"} => ToolResult(last.response)

\* execute_query called without arguments while a pool is held
C15_Witness ==
    /\ last.tool = "execute_query"
    /\ "args" \notin DOMAIN last
    /\ postgresPool # Null \/ mysqlConnection # Null
    /\ last.response = ErrorResponse(TypeErrorMsg("query"))

\* the count the driver reported for the statement of the last execute_query:
\* the rows it returned for a read, the rows it affected for a write
DriverCount ==
    IF last.drv = "read" THEN Len(last.response.content[1].text.rows)
    ELSE IF Is(currentConfig, "type", "mysql") THEN MysqlResult("write").rows.affectedRows
    ELSE PgResult("write").rowCount

\* C19: the rowCount execute_query answers with is the number of rows
\* returned for a read and the number of rows affected, as the driver reports
\* it, for a write, on PostgreSQL and on MySQL.
C19_RowCountIsDriverCount ==
    (last.tool = "execute_query" /\ ~Failed(last.response))
    => last.response.content[1].text.rowCount = DriverCount

\* C20: a connect_database refused with the incomplete-configuration error
\* makes no driver call and leaves currentConfig, both pool slots and every
\* pool as they were, so a session that was Connected stays Connected to the
\* pool it held.
C20_IncompleteConnectKeepsSession ==
    [][(last'.tool = "connect_database"
          /\ last'.response = ErrorResponse(IncompleteMsg)) =>
             /\ last'.calls = <<>>
             /\ UNCHANGED <<currentConfig, postgresPool, mysqlConnection, pools>>]_vars

\* a connect refused as incomplete while a configuration and an open pool
\* are held
C20_Witness ==
    /\ last.tool = "connect_database"
    /\ last.response = ErrorResponse(IncompleteMsg)
    /\ last.before.config /\ last.before.pool
    /\ currentConfig # Null
    /\ ConfiguredPool # Null
    /\ pools[ConfiguredPool.id] = "open"

\* the two connect_database calls are over and nothing else is under way
BothFinished ==
    /\ phase = "serving"
    /\ running["a"].pc = "done" /\ running["b"].pc = "done"
    /\ running["auto"].pc = "done"
    /\ running["sigint"].pc = "idle"
    /\ last.handler \in {"a", "b"}

\* C16: once two connect_database calls that overlapped are both over, the
\* session is the one the call that ended last leaves: currentConfig is its
\* configuration, the slot of its type holds its pool and the other slot is
\* null.
C16_LastFinisherWins ==
    (BothFinished /\ running[last.handler].pool # Null) =>
       /\ currentConfig = running[last.handler].config
       /\ ConfiguredPool = running[last.handler].pool
       /\ \/ postgresPool = Null
          \/ mysqlConnection = Null

\* the pools held in the two slots
HeldPools == {q.id : q \in {postgresPool, mysqlConnection} \ {Null}}

\* C17: at any time, handlers overlapping or not, postgresPool and
\* mysqlConnection are not both non-null and every pool that was created and
\* not ended is the one held in a slot.
C17_OneLiveAdapter ==
    /\ postgresPool = Null \/ mysqlConnection = Null
    /\ OpenPools \subseteq HeldPools

\* C18: when the process exits on SIGINT, disconnectDatabase has run to its
\* end: currentConfig is null and every pool ever created has been ended.
C18_ExitAfterDisconnect ==
    phase = "exited" =>
       /\ running["sigint"].pc = "done"
       /\ currentConfig = Null
       /\ OpenPools = {}

-----------------------------------------------------------------------------
(* C21 - C23 *)

UnsupportedMsg(type) == <<"Unsupported database type: ", type>>

\* the last handler was a connect_database given all six required fields
\* with a type that is neither postgresql nor mysql
ConnectUnsupported ==
    /\ last.tool = "connect_database"
    /\ Required \subseteq DOMAIN last.args
    /\ last.args.type \notin {"postgresql", "mysql"}

\* C21: a connect_database with all six required fields and a type outside
\* {postgresql, mysql} fails with 'Unsupported database type', creates no
\* pool and leaves currentConfig and both pool slots null; a read tool called
\* right after it fails with the 'Not connected' error.
C21_UnsupportedLeavesDisconnected ==
    [][/\ ConnectUnsupported' =>
             /\ last'.response = ErrorResponse(UnsupportedMsg(last'.args.type))
             /\ \A j \in 1..Len(last'.calls) : last'.calls[j].op # "create"
             /\ Disconnected'
       /\ (ConnectUnsupported /\ last'.tool \in ReadTools) =>
             last'.response = ErrorResponse(NotConnectedMsg)]_vars

NotInitializedResponses ==
    {ErrorResponse(<<"PostgreSQL connection not initialized">>),
     ErrorResponse(<<"MySQL connection not initialized">>)}

\* C22: with tool calls served one at a time, a currentConfig of type
\* postgresql goes with postgresPool non-null and mysqlConnection null, one
\* of type mysql with mysqlConnection non-null and postgresPool null; and no
\* execute_query, list_tables or describe_table answers 'PostgreSQL
\* connection not initialized' or 'MySQL connection not initialized'.
C22_PoolMatchesType ==
    /\ Is(currentConfig, "type", "postgresql") =>
          postgresPool # Null /\ mysqlConnection = Null
    /\ Is(currentConfig, "type", "mysql") =>
          mysqlConnection # Null /\ postgresPool = Null
    /\ last.tool \in ReadTools => last.response \notin NotInitializedResponses

\* a read served on MySQL after the session had been on another pool before
C22_Witness ==
    /\ last.tool \in ReadTools
    /\ Is(currentConfig, "type", "mysql")
    /\ mysqlConnection # Null
    /\ Len(pools) > 1
    /\ Len(last.calls) = 1
    /\ last.calls[1].pool = mysqlConnection.id

\* C23: however disconnect_database, connect_database and the SIGINT
\* disconnect overlap, end() is never called on a pool on which it was
\* called before, and every disconnect_database reports success.
C23_EndOncePerPool ==
    /\ \A h \in Handlers : ~running[h].again
    /\ running["d"].pc = "done" => running["d"].result = "ok"

====
